---- MODULE Spec2Model ----
(***************************************************************************)
(* A model of the domain scanner of collective-vision: scanDomain and its  *)
(* helpers (src/app/actions.ts, lines 1-194).                              *)
(*                                                                         *)
(* Text is modelled as follows.  A raw domain is a sequence of characters, *)
(* so that the regular expression and the split of line 107 are computed.  *)
(* A report line is a sequence of words.  A DNS TXT chunk, a header value  *)
(* and an HTML body are searched by the code only with includes(): each is *)
(* modelled by the searched markers it contains.                           *)
(***************************************************************************)
EXTENDS Integers, Sequences, FiniteSets, TLC

VARIABLES
    domain,       \* the argument of scanDomain
    cleanDomain,  \* const cleanDomain (line 107)
    pc,           \* the await at which scanDomain is suspended
    score,        \* let score (line 109)
    issues,       \* const issues (line 110)
    passes,       \* const passes (line 111)
    cms,          \* let cms (line 112)
    portSock,     \* per catalog entry: the socket of its checkPort call
    portOut,      \* per catalog entry: the promise of its checkPort call
    settleOrder,  \* the order in which the checkPort promises settled, kept
                  \* until the results of Promise.all have been consumed
    tlsSock,      \* the socket of getSSLDetails
    ssl,          \* const ssl (line 136), a sequence of zero or one summary
    txt,          \* const txt (line 147)
    dmarc,        \* const dmarc (line 153), zero or one chunk
    response,     \* const response (line 162), zero or one response
    bodyStream,   \* the state of the response body read by response.text()
    htmlBody,     \* const htmlBody (line 171), zero or one body
    report,       \* the value scanDomain returned, zero or one report
    dnsErr,       \* the lookups of this scan whose resolveTxt rejected, kept
                  \* until the DNS phase is over
    two,          \* two invocations of scanDomain against one mock network
    calc,         \* a call of calculateFinancialRisk and its result
    probe,        \* one call of checkPort and one of getSSLDetails, with
                  \* their sockets and promises
    page          \* the state of the Home component (page.tsx)

scanVars == <<domain, cleanDomain, pc, score, issues, passes, cms, portSock,
              portOut, settleOrder, tlsSock, ssl, txt, dmarc, response,
              bodyStream, htmlBody, report, dnsErr>>

vars == <<scanVars, two, calc, probe, page>>

-----------------------------------------------------------------------------
(* Bounds of the model.                                                    *)

\* a raw domain of the normalizer's specification is built from at most
\* MaxParts pieces
MaxParts == 3

\* the most texts of interest a body holds
MaxMarkers == 2

\* the times the clock advances while two scans run
MaxTicks == 2

\* the events a socket delivers to its listeners after the first one
MaxLate == 2

-----------------------------------------------------------------------------
(* Characters and the domain normalizer (line 107).                        *)

ToLower(c) ==
    CASE c = "H" -> "h"
      [] c = "T" -> "t"
      [] c = "P" -> "p"
      [] c = "S" -> "s"
      [] c = "W" -> "w"
      [] OTHER -> c

Drop(s, n) == SubSeq(s, n + 1, Len(s))

\* s starts with p, compared as the /i flag compares
HasPrefixCI(s, p) ==
    /\ Len(s) >= Len(p)
    /\ \A i \in 1..Len(p) : ToLower(s[i]) = ToLower(p[i])

HttpScheme == <<"h", "t", "t", "p", ":", "/", "/">>
HttpsScheme == <<"h", "t", "t", "p", "s", ":", "/", "/">>
WwwDot == <<"w", "w", "w", ".">>

\* (?:https?:\/\/)? at the start of the string, greedy
StripScheme(s) ==
    IF HasPrefixCI(s, HttpsScheme) THEN Drop(s, Len(HttpsScheme))
    ELSE IF HasPrefixCI(s, HttpScheme) THEN Drop(s, Len(HttpScheme))
    ELSE s

StripWwwKeep(s) == s

\* (?:www\.)? right after the scheme
StripWww(s) == IF HasPrefixCI(s, WwwDot) THEN Drop(s, Len(WwwDot)) ELSE s

RECURSIVE SplitFirst(_)
\* .split('/')[0]
SplitFirst(s) ==
    IF s = <<>> \/ Head(s) = "/" THEN <<>>
    ELSE <<Head(s)>> \o SplitFirst(Tail(s))

Normalize(s) == SplitFirst(StripWww(StripScheme(s)))

-----------------------------------------------------------------------------
(* Raw domains.                                                            *)

Pieces ==
    { HttpsScheme, HttpScheme, <<"H", "T", "T", "P", ":", "/", "/">>,
      WwwDot, <<"W", "w", "W", ".">>, <<"a">>, <<"/">>, <<".", "i", "o">> }

RECURSIVE Concat(_)
Concat(ps) == IF ps = <<>> THEN <<>> ELSE Head(ps) \o Concat(Tail(ps))

\* every concatenation of at most MaxParts pieces
RawStrings ==
    { Concat(ps) : ps \in UNION { [1..n -> Pieces] : n \in 0..MaxParts } }

\* the raw domains of the scan: one that normalizes to a host name and one
\* that normalizes to the empty string
RawDomains ==
    { HttpsScheme \o WwwDot \o <<"a", ".", "i", "o", "/", "a">>, HttpsScheme }

-----------------------------------------------------------------------------
(* The accumulator: score, issues and passes (lines 109-111).              *)

DeductUnshift(acc, points, line) ==
    [acc EXCEPT !.score = @ - points, !.issues = <<line>> \o @]

Deduct(acc, points, line) ==
    [acc EXCEPT !.score = @ - points, !.issues = Append(@, line)]

Pass(acc, line) == [acc EXCEPT !.passes = Append(@, line)]

Acc == [score |-> score, issues |-> issues, passes |-> passes]

-----------------------------------------------------------------------------
(* 1. Port scan (lines 36-45 and 115-133).                                 *)

portsToCheck ==
    << [port |-> 21, service |-> "FTP", risk |-> "High"],
       [port |-> 22, service |-> "SSH", risk |-> "Medium"],
       [port |-> 3389, service |-> "RDP", risk |-> "Critical"],
       [port |-> 3306, service |-> "MySQL", risk |-> "Critical"],
       [port |-> 5432, service |-> "PostgreSQL", risk |-> "Critical"] >>

PortIx == 1..Len(portsToCheck)

SocketEvents == {"connect", "timeout", "error"}

OnErrorReject == "rejected"

\* socket.on('error', ...) of checkPort: the value the promise settles with
OnError == "false"

\* the handlers of checkPort (lines 40-42)
CheckPortHandler(ev) ==
    CASE ev = "connect" -> "true"
      [] ev = "timeout" -> "false"
      [] ev = "error" -> OnError

SettleOverwrite(cur, v) == v

\* resolve() and reject() act on a pending promise only
Settle(cur, v) == IF cur = "pending" THEN v ELSE cur

FanOutFirstOnly == {1}

\* portsToCheck.map(async (p) => ... checkPort(cleanDomain, p.port)): the
\* entries whose probe is started by the call of map
FanOut == PortIx

JoinedAny(out) == \E i \in PortIx : out[i] # "pending"

\* Promise.all fulfils when every promise is fulfilled
Joined(out) == \A i \in PortIx : out[i] \in {"true", "false"}

\* Promise.all rejects as soon as one promise is rejected
Rejected(out) == \E i \in PortIx : out[i] = "rejected"

PortResult(i, out) ==
    [port |-> portsToCheck[i].port, service |-> portsToCheck[i].service,
     risk |-> portsToCheck[i].risk, isOpen |-> out[i]]

PromiseAllBySettle(order, out) ==
    [k \in 1..Len(order) |-> PortResult(order[k], out)]

\* the array Promise.all fulfils with: in the order of the input array
PromiseAll(order, out) == [i \in PortIx |-> PortResult(i, out)]

PortLine(res) == <<"Open", "Port:", ToString(res.port), res.service>>

RECURSIVE ForEachPortFlat(_, _)
ForEachPortFlat(acc, results) ==
    IF results = <<>> THEN acc
    ELSE LET res == Head(results)
             next == IF res.isOpen = "true"
                     THEN Deduct(acc, 10, PortLine(res))
                     ELSE acc
         IN ForEachPortFlat(next, Tail(results))

RECURSIVE ForEachPort(_, _)
\* portResults.forEach (lines 125-131)
ForEachPort(acc, results) ==
    IF results = <<>> THEN acc
    ELSE LET res == Head(results)
             next == IF res.isOpen = "true"
                     THEN Deduct(acc, IF res.risk = "Critical" THEN 20 ELSE 10,
                                 PortLine(res))
                     ELSE acc
         IN ForEachPort(next, Tail(results))

RECURSIVE OpenPorts(_)
\* let openPorts (lines 124, 127)
OpenPorts(results) ==
    IF results = <<>> THEN 0
    ELSE (IF Head(results).isOpen = "true" THEN 1 ELSE 0)
         + OpenPorts(Tail(results))

FirewalledLine == <<"Critical", "Ports", "are", "Firewalled">>

\* lines 124-132
ScorePorts(acc, results) ==
    LET a == ForEachPort(acc, results)
    IN IF OpenPorts(results) = 0 THEN Pass(a, FirewalledLine) ELSE a

-----------------------------------------------------------------------------
(* 2. SSL check (lines 8-33 and 136-143).                                  *)

\* 1000 * 60 * 60 * 24 (line 25)
DayMs == 1000 * 60 * 60 * 24

\* Date.now() at the time of the handshake
Now == 0

\* cert.valid_to of the certificates the peer may offer, as a time in ms
ValidTos == { DayMs - 1, DayMs, 14 * DayMs - 1, 14 * DayMs, 15 * DayMs }

SummaryMs(validTo, now) ==
    LET daysRemaining == validTo - now
    IN [daysRemaining |-> daysRemaining, valid |-> daysRemaining > 0]

\* lines 24-27; \div rounds down, as Math.floor does
Summary(validTo, now) ==
    LET daysRemaining == (validTo - now) \div DayMs
    IN [daysRemaining |-> daysRemaining, valid |-> daysRemaining > 0]

ScoreSslThirty(acc, s) ==
    IF s # <<>>
    THEN IF ~s[1].valid
         THEN Deduct(acc, 20, <<"SSL", "Certificate", "EXPIRED">>)
         ELSE IF s[1].daysRemaining < 30
         THEN Deduct(acc, 10, <<"SSL", "Expires", "soon",
                                ToString(s[1].daysRemaining), "days">>)
         ELSE Pass(acc, <<"SSL", "Valid", ToString(s[1].daysRemaining),
                          "days", "left">>)
    ELSE Deduct(acc, 20, <<"No", "SSL", "Certificate", "found">>)

ScoreSslLenient(acc, s) ==
    IF s # <<>>
    THEN IF s[1].daysRemaining < 14
         THEN Deduct(acc, 10, <<"SSL", "Expires", "soon",
                                ToString(s[1].daysRemaining), "days">>)
         ELSE Pass(acc, <<"SSL", "Valid", ToString(s[1].daysRemaining),
                          "days", "left">>)
    ELSE Deduct(acc, 20, <<"No", "SSL", "Certificate", "found">>)

\* lines 137-143
ScoreSsl(acc, s) ==
    IF s # <<>>
    THEN IF ~s[1].valid
         THEN Deduct(acc, 20, <<"SSL", "Certificate", "EXPIRED">>)
         ELSE IF s[1].daysRemaining < 14
         THEN Deduct(acc, 10, <<"SSL", "Expires", "soon",
                                ToString(s[1].daysRemaining), "days">>)
         ELSE Pass(acc, <<"SSL", "Valid", ToString(s[1].daysRemaining),
                          "days", "left">>)
    ELSE Deduct(acc, 20, <<"No", "SSL", "Certificate", "found">>)

-----------------------------------------------------------------------------
(* 3. DNS security (lines 146-157).  An answer of resolveTxt is a sequence *)
(* of records, a record a sequence of chunks, a chunk the set of the       *)
(* searched markers its text contains.                                     *)

\* .flat()
Flat(answer) == Concat(answer)

RECURSIVE Find(_, _)
\* .find(r => r.includes(marker)): zero or one chunk
Find(chunks, marker) ==
    IF chunks = <<>> THEN <<>>
    ELSE IF marker \in Head(chunks) THEN <<Head(chunks)>>
    ELSE Find(Tail(chunks), marker)

\* the answers for the apex; a failed resolution is caught and gives <<>>
ApexAnswers ==
    { <<>>,
      << <<{"v=spf1"}>> >>,
      << <<{"v=spf1", "+all"}>> >>,
      << <<{}>>, <<{"v=spf1"}>>, <<{"v=spf1", "+all"}>> >> }

\* the answers for _dmarc.<domain>
DmarcAnswers ==
    { <<>>,
      << <<{"v=DMARC1"}>> >>,
      << <<{"v=DMARC1", "p=none"}>> >>,
      << <<{}>>, <<{"v=DMARC1"}>> >> }

ScoreSpfBoth(acc, answer) ==
    LET spf == Find(Flat(answer), "v=spf1")
    IN IF spf = <<>>
       THEN Deduct(acc, 20, <<"Missing", "SPF", "Record">>)
       ELSE IF "+all" \in spf[1]
       THEN Pass(Deduct(acc, 20, <<"SPF", "Record", "unsafe", "('+all')">>),
                 <<"SPF", "Record", "Detected">>)
       ELSE Pass(acc, <<"SPF", "Record", "Detected">>)

\* lines 148-151
ScoreSpf(acc, answer) ==
    LET spf == Find(Flat(answer), "v=spf1")
    IN IF spf = <<>>
       THEN Deduct(acc, 20, <<"Missing", "SPF", "Record">>)
       ELSE IF "+all" \in spf[1]
       THEN Deduct(acc, 20, <<"SPF", "Record", "unsafe", "('+all')">>)
       ELSE Pass(acc, <<"SPF", "Record", "Detected">>)

ScoreDmarcTwenty(acc, d) ==
    IF d = <<>>
    THEN Deduct(acc, 20, <<"Missing", "DMARC", "Record">>)
    ELSE IF "p=none" \in d[1]
    THEN Deduct(acc, 10, <<"DMARC", "Policy", "weak", "('p=none')">>)
    ELSE Pass(acc, <<"DMARC", "Record", "Active">>)

\* lines 154-156
ScoreDmarc(acc, d) ==
    IF d = <<>>
    THEN Deduct(acc, 30, <<"Missing", "DMARC", "Record">>)
    ELSE IF "p=none" \in d[1]
    THEN Deduct(acc, 10, <<"DMARC", "Policy", "weak", "('p=none')">>)
    ELSE Pass(acc, <<"DMARC", "Record", "Active">>)

-----------------------------------------------------------------------------
(* 4. Web security and CMS (lines 49-102 and 160-191).  headers.get gives  *)
(* "null" for an absent header; a header value is "" or names the marker   *)
(* it contains.                                                            *)

\* the truthiness of a value of headers.get
Truthy(v) == v \notin {"null", ""}

NoCmsHeaders == [poweredBy |-> "null", servedBy |-> "null", wixId |-> "null"]

SecurityHeaders ==
    [hsts : {"null", "max-age"}, xcto : {"null", "nosniff"},
     xfo : {"null", "DENY"}, csp : {"null", "default-src", "frame-ancestors"}]

\* the responses fetch may resolve with
Responses ==
    { [sec |-> h, gen |-> NoCmsHeaders] : h \in
        { x \in SecurityHeaders : x.xfo = "null" \/ x.csp = "null" } }

\* the bodies response.text() may resolve with
Bodies == { {}, {"/WP-Content/", "cdn.shopify.com"} }

LowerMarker(m) == IF m = "/WP-Content/" THEN "/wp-content/" ELSE m

\* html.toLowerCase()
LowerHtml(html) == { LowerMarker(m) : m \in html }

identifyCMSShopifyFirst(html, headers) ==
    LET lowerHtml == LowerHtml(html)
    IN IF \/ "cdn.shopify.com" \in lowerHtml
          \/ "window.shopify" \in lowerHtml
          \/ "shopify-section" \in lowerHtml
       THEN "Shopify"
       ELSE IF \/ "/wp-content/" \in lowerHtml
               \/ "/wp-includes/" \in lowerHtml
               \/ "wp-json" \in lowerHtml
               \/ "class=\"wp-block" \in lowerHtml
               \/ "id=\"wp-admin-bar" \in lowerHtml
               \/ headers.poweredBy = "WP Engine"
       THEN "WordPress"
       ELSE IF \/ "static1.squarespace.com" \in lowerHtml
               \/ "squarespace-core" \in lowerHtml
               \/ headers.servedBy = "Squarespace"
       THEN "Squarespace"
       ELSE IF \/ "wix.com" \in lowerHtml
               \/ "wix-warmup-data" \in lowerHtml
               \/ Truthy(headers.wixId)
       THEN "Wix"
       ELSE IF \/ "joomla" \in lowerHtml
               \/ "/templates/system/css/system.css" \in lowerHtml
       THEN "Joomla"
       ELSE IF "drupal" \in lowerHtml \/ "sites/default/files" \in lowerHtml
       THEN "Drupal"
       ELSE "null"

\* lines 49-102
identifyCMS(html, headers) ==
    LET lowerHtml == LowerHtml(html)
    IN IF \/ "/wp-content/" \in lowerHtml
          \/ "/wp-includes/" \in lowerHtml
          \/ "wp-json" \in lowerHtml
          \/ "class=\"wp-block" \in lowerHtml
          \/ "id=\"wp-admin-bar" \in lowerHtml
          \/ headers.poweredBy = "WP Engine"
       THEN "WordPress"
       ELSE IF \/ "cdn.shopify.com" \in lowerHtml
               \/ "window.shopify" \in lowerHtml
               \/ "shopify-section" \in lowerHtml
       THEN "Shopify"
       ELSE IF \/ "static1.squarespace.com" \in lowerHtml
               \/ "squarespace-core" \in lowerHtml
               \/ headers.servedBy = "Squarespace"
       THEN "Squarespace"
       ELSE IF \/ "wix.com" \in lowerHtml
               \/ "wix-warmup-data" \in lowerHtml
               \/ Truthy(headers.wixId)
       THEN "Wix"
       ELSE IF \/ "joomla" \in lowerHtml
               \/ "/templates/system/css/system.css" \in lowerHtml
       THEN "Joomla"
       ELSE IF "drupal" \in lowerHtml \/ "sites/default/files" \in lowerHtml
       THEN "Drupal"
       ELSE "null"

ScoreHeadersXfoOnly(acc, h) ==
    LET a1 == IF ~Truthy(h.hsts)
              THEN Deduct(acc, 10, <<"Missing", "HSTS", "Header">>)
              ELSE Pass(acc, <<"HSTS", "Enabled">>)
        a2 == IF ~Truthy(h.xcto)
              THEN Deduct(a1, 5, <<"Missing", "X-Content-Type-Options">>)
              ELSE Pass(a1, <<"Content", "Sniffing", "Protection", "Active">>)
    IN IF ~Truthy(h.xfo)
       THEN Deduct(a2, 5, <<"Missing", "Clickjacking", "Protection">>)
       ELSE Pass(a2, <<"Clickjacking", "Protection", "Active">>)

\* lines 177-186
ScoreHeaders(acc, h) ==
    LET a1 == IF ~Truthy(h.hsts)
              THEN Deduct(acc, 10, <<"Missing", "HSTS", "Header">>)
              ELSE Pass(acc, <<"HSTS", "Enabled">>)
        a2 == IF ~Truthy(h.xcto)
              THEN Deduct(a1, 5, <<"Missing", "X-Content-Type-Options">>)
              ELSE Pass(a1, <<"Content", "Sniffing", "Protection", "Active">>)
    IN IF ~Truthy(h.xfo) /\ ~(Truthy(h.csp) /\ h.csp = "frame-ancestors")
       THEN Deduct(a2, 5, <<"Missing", "Clickjacking", "Protection">>)
       ELSE Pass(a2, <<"Clickjacking", "Protection", "Active">>)

ScanFailedLine ==
    <<"Website", "Scan", "Failed", "(Firewall", "may", "be", "blocking",
      "scanner)">>

Max(a, b) == IF a >= b THEN a ELSE b

ReportUnclamped(acc, c) ==
    [score |-> acc.score, issues |-> acc.issues, passes |-> acc.passes,
     cms |-> c]

\* line 193
Report(acc, c) ==
    [score |-> Max(0, acc.score), issues |-> acc.issues,
     passes |-> acc.passes, cms |-> c]

-----------------------------------------------------------------------------
(* scanDomain as a state machine: one action per resumption of the async   *)
(* function and per event of the network.                                  *)

\* no pair of invocations runs; no call of the risk calculator runs
TwoIdle == <<>>
CalcIdle == <<>>

\* no probe is looked at on its own; no page is open
ProbeIdle == <<>>
PageIdle == <<>>

Init ==
    /\ domain \in RawDomains
    /\ cleanDomain = <<>>
    /\ pc = "start"
    /\ score = 100
    /\ issues = <<>>
    /\ passes = <<>>
    /\ cms = "null"
    /\ portSock = [i \in PortIx |-> "none"]
    /\ portOut = [i \in PortIx |-> "pending"]
    /\ settleOrder = <<>>
    /\ tlsSock = "none"
    /\ ssl = <<>>
    /\ txt = <<>>
    /\ dmarc = <<>>
    /\ response = <<>>
    /\ bodyStream = "none"
    /\ htmlBody = <<>>
    /\ report = <<>>
    /\ dnsErr = {}
    /\ probe = ProbeIdle
    /\ page = PageIdle
    /\ two = TwoIdle
    /\ calc = CalcIdle

\* lines 105-123, up to the await of Promise.all: the call of map starts
\* every probe (the executor of each promise runs synchronously, line 43)
Start ==
    /\ pc = "start"
    /\ cleanDomain' = Normalize(domain)
    /\ score' = 100
    /\ issues' = <<>>
    /\ passes' = <<>>
    /\ cms' = "null"
    /\ portSock' = [i \in PortIx |-> IF i \in FanOut THEN "connecting" ELSE "none"]
    /\ portOut' = [i \in PortIx |-> "pending"]
    /\ pc' = "ports"
    /\ UNCHANGED <<probe, page, two, calc, dnsErr, domain, settleOrder, tlsSock, ssl, txt, dmarc, response,
                   bodyStream, htmlBody, report>>

\* checkPort, lines 40-42: the first event of the socket of entry i; the
\* handler destroys the socket and settles the promise
PortEvent(i, ev) ==
    /\ portSock[i] = "connecting"
    /\ portSock' = [portSock EXCEPT ![i] = "destroyed"]
    /\ portOut' = [portOut EXCEPT ![i] = Settle(@, CheckPortHandler(ev))]
    /\ settleOrder' = IF pc = "ports" THEN Append(settleOrder, i) ELSE settleOrder
    /\ UNCHANGED <<probe, page, two, calc, dnsErr, domain, cleanDomain, pc, score, issues, passes, cms, tlsSock,
                   ssl, txt, dmarc, response, bodyStream, htmlBody, report>>

\* lines 123-136: the await of Promise.all resumes, or its rejection is
\* caught (line 133); then getSSLDetails opens its socket (line 11)
AwaitPorts ==
    /\ pc = "ports"
    /\ Joined(portOut) \/ Rejected(portOut)
    /\ LET acc == IF Rejected(portOut) THEN Acc
                  ELSE ScorePorts(Acc, PromiseAll(settleOrder, portOut))
       IN /\ score' = acc.score
          /\ issues' = acc.issues
          /\ passes' = acc.passes
    /\ tlsSock' = "connecting"
    /\ pc' = "ssl"
    /\ UNCHANGED <<probe, page, two, calc, dnsErr, domain, cleanDomain, cms, portSock, portOut, settleOrder, ssl,
                   txt, dmarc, response, bodyStream, htmlBody, report>>

TlsEvents == {"secureConnect", "noCertificate", "error", "timeout"}

SslOutcomeExpiredNull(ev, validTo) ==
    IF ev = "secureConnect" /\ Summary(validTo, Now).valid
    THEN <<Summary(validTo, Now)>> ELSE <<>>

\* getSSLDetails, lines 17-30: what the promise resolves with
SslOutcome(ev, validTo) ==
    IF ev = "secureConnect" THEN <<Summary(validTo, Now)>> ELSE <<>>

SslSocketKeptOpen(ev) ==
    CASE ev = "secureConnect" -> "connected"
      [] ev = "noCertificate" -> "ended"
      [] ev = "timeout" -> "destroyed"
      [] ev = "error" -> "errored"

\* getSSLDetails, lines 20, 26, 29, 30: what becomes of the socket
SslSocket(ev) ==
    CASE ev \in {"secureConnect", "noCertificate"} -> "ended"
      [] ev = "timeout" -> "destroyed"
      [] ev = "error" -> "errored"

SslErrorRejects(ev) == IF ev = "error" THEN "reject" ELSE "resolve"

\* getSSLDetails, lines 17-31: every handler calls resolve, none reject
SslSettles(ev) == "resolve"

\* lines 136-147: the await of getSSLDetails resumes; then the apex lookup.
\* The await is in no try block: were the promise rejected, scanDomain
\* would reject with it
AwaitSsl ==
    /\ pc = "ssl"
    /\ tlsSock = "connecting"
    /\ \E ev \in TlsEvents, validTo \in ValidTos :
         /\ tlsSock' = SslSocket(ev)
         /\ IF SslSettles(ev) = "reject"
            THEN /\ pc' = "rejected"
                 /\ UNCHANGED <<ssl, score, issues, passes>>
            ELSE /\ ssl' = SslOutcome(ev, validTo)
                 /\ LET acc == ScoreSsl(Acc, ssl')
                    IN /\ score' = acc.score
                       /\ issues' = acc.issues
                       /\ passes' = acc.passes
                 /\ pc' = "spf"
    /\ settleOrder' = <<>>
    /\ UNCHANGED <<probe, page, two, calc, dnsErr, domain, cleanDomain, cms, portSock, portOut,
                   txt, dmarc, response, bodyStream, htmlBody, report>>

DnsOutcomes == {"answer", "failure"}

ResolveTxtNoCatch(outcome, answer) == answer

\* dns.resolveTxt(...).catch(() => [])
ResolveTxt(outcome, answer) == IF outcome = "failure" THEN <<>> ELSE answer

\* lines 147-153: the await of the apex lookup resumes; then the lookup of
\* _dmarc.<domain>
AwaitSpf ==
    /\ pc = "spf"
    /\ \E o \in DnsOutcomes, a \in ApexAnswers :
         /\ txt' = ResolveTxt(o, a)
         /\ dnsErr' = IF o = "failure" THEN dnsErr \cup {"apex"} ELSE dnsErr
    /\ LET acc == ScoreSpf(Acc, txt')
       IN /\ score' = acc.score
          /\ issues' = acc.issues
          /\ passes' = acc.passes
    /\ pc' = "dmarc"
    /\ UNCHANGED <<probe, page, two, calc, domain, cleanDomain, cms, portSock, portOut, settleOrder,
                   tlsSock, ssl, dmarc, response, bodyStream, htmlBody, report>>

\* lines 153-162: the await of the _dmarc lookup resumes; then fetch
AwaitDmarc ==
    /\ pc = "dmarc"
    /\ \E o \in DnsOutcomes, a \in DmarcAnswers :
         /\ dmarc' = Find(Flat(ResolveTxt(o, a)), "v=DMARC1")
         /\ dnsErr' = IF o = "failure" THEN dnsErr \cup {"dmarc"} ELSE dnsErr
    /\ LET acc == ScoreDmarc(Acc, dmarc')
       IN /\ score' = acc.score
          /\ issues' = acc.issues
          /\ passes' = acc.passes
    /\ pc' = "fetch"
    /\ UNCHANGED <<probe, page, two, calc, domain, cleanDomain, cms, portSock, portOut, settleOrder,
                   tlsSock, ssl, txt, response, bodyStream, htmlBody, report>>

CatchAndReturnPenalised ==
    /\ issues' = Append(issues, ScanFailedLine)
    /\ score' = score - 20
    /\ report' = <<Report([Acc EXCEPT !.issues = issues', !.score = score'],
                          cms)>>
    /\ pc' = "done"
    /\ UNCHANGED <<passes, cms>>

\* lines 188-193: the catch of the web audit, and the return
CatchAndReturn ==
    /\ issues' = Append(issues, ScanFailedLine)
    /\ report' = <<Report([Acc EXCEPT !.issues = issues'], cms)>>
    /\ pc' = "done"
    /\ UNCHANGED <<score, passes, cms>>

\* lines 162-171: the await of fetch resumes with a response, whose body
\* response.text() starts to read, or fetch rejects
AwaitFetch ==
    /\ pc = "fetch"
    /\ \/ /\ \E r \in Responses : response' = <<r>>
          /\ bodyStream' = "open"
          /\ pc' = "body"
          /\ UNCHANGED <<score, issues, passes, cms, report>>
       \/ /\ CatchAndReturn
          /\ UNCHANGED <<response, bodyStream>>
    /\ dnsErr' = {}
    /\ UNCHANGED <<probe, page, two, calc, domain, cleanDomain, portSock, portOut, settleOrder, tlsSock,
                   ssl, txt, dmarc, htmlBody>>

\* lines 171-193: the await of response.text() resumes with the body, or it
\* rejects
AwaitBody ==
    /\ pc = "body"
    /\ bodyStream = "open"
    /\ \/ /\ \E b \in Bodies : htmlBody' = <<b>>
          /\ bodyStream' = "ended"
          /\ cms' = identifyCMS(htmlBody'[1], response[1].gen)
          /\ LET acc == ScoreHeaders(Acc, response[1].sec)
             IN /\ score' = acc.score
                /\ issues' = acc.issues
                /\ passes' = acc.passes
                /\ report' = <<Report(acc, cms')>>
          /\ pc' = "done"
       \/ /\ bodyStream' = "aborted"
          /\ CatchAndReturn
          /\ UNCHANGED htmlBody
    /\ UNCHANGED <<probe, page, two, calc, dnsErr, domain, cleanDomain, portSock, portOut, settleOrder, tlsSock,
                   ssl, txt, dmarc, response>>

\* the peer keeps the body open and never ends it; the fetch of line 162 is
\* given no signal and no timeout, so that response.text() stays pending
BodyStall ==
    /\ pc = "body"
    /\ bodyStream = "open"
    /\ bodyStream' = "stalled"
    /\ UNCHANGED <<probe, page, two, calc, dnsErr, domain, cleanDomain, pc, score, issues, passes, cms, portSock,
                   portOut, settleOrder, tlsSock, ssl, txt, dmarc, response,
                   htmlBody, report>>

Next ==
    \/ Start
    \/ \E i \in PortIx, ev \in SocketEvents : PortEvent(i, ev)
    \/ AwaitPorts
    \/ AwaitSsl
    \/ AwaitSpf
    \/ AwaitDmarc
    \/ AwaitFetch
    \/ AwaitBody
    \/ BodyStall

Spec == Init /\ [][Next]_vars

\* the event loop runs a continuation that is ready, and a socket that is
\* connecting gets one of its events (its timer fires if nothing else does)
FairSpec == Spec /\ WF_vars(Next)

-----------------------------------------------------------------------------
(* The normalizer on its own: scanDomain is called with every raw string.  *)

InitNorm ==
    /\ domain \in RawStrings
    /\ cleanDomain = <<>>
    /\ pc = "start"
    /\ score = 100
    /\ issues = <<>>
    /\ passes = <<>>
    /\ cms = "null"
    /\ portSock = [i \in PortIx |-> "none"]
    /\ portOut = [i \in PortIx |-> "pending"]
    /\ settleOrder = <<>>
    /\ tlsSock = "none"
    /\ ssl = <<>>
    /\ txt = <<>>
    /\ dmarc = <<>>
    /\ response = <<>>
    /\ bodyStream = "none"
    /\ htmlBody = <<>>
    /\ report = <<>>
    /\ dnsErr = {}
    /\ probe = ProbeIdle
    /\ page = PageIdle
    /\ two = TwoIdle
    /\ calc = CalcIdle

NextNorm == Start

SpecNorm == InitNorm /\ [][NextNorm]_vars

-----------------------------------------------------------------------------
(* identifyCMS on its own: called with every body of at most MaxMarkers    *)
(* of the texts below and every choice of the three headers it reads.      *)

\* the texts a body may contain: the ones includes() is asked for (lines
\* 54-96), one of them also in capitals, and one that is no marker
BodyTexts ==
    { "/wp-content/", "/WP-Content/", "/wp-includes/", "wp-json",
      "class=\"wp-block", "id=\"wp-admin-bar",
      "cdn.shopify.com", "window.shopify", "shopify-section",
      "static1.squarespace.com", "squarespace-core",
      "wix.com", "wix-warmup-data",
      "joomla", "/templates/system/css/system.css",
      "drupal", "sites/default/files",
      "plain" }

HtmlBodies == { b \in SUBSET BodyTexts : Cardinality(b) <= MaxMarkers }

\* the values of x-powered-by, x-served-by and x-wix-request-id
CmsHeaders ==
    [poweredBy : {"null", "PHP", "WP Engine"},
     servedBy : {"null", "cache", "Squarespace"},
     wixId : {"null", "", "id"}]

NoSecurityHeaders ==
    [hsts |-> "null", xcto |-> "null", xfo |-> "null", csp |-> "null"]

InitCms ==
    /\ domain \in RawDomains
    /\ cleanDomain = <<>>
    /\ pc = "identify"
    /\ score = 100
    /\ issues = <<>>
    /\ passes = <<>>
    /\ cms = "null"
    /\ portSock = [i \in PortIx |-> "none"]
    /\ portOut = [i \in PortIx |-> "pending"]
    /\ settleOrder = <<>>
    /\ tlsSock = "none"
    /\ ssl = <<>>
    /\ txt = <<>>
    /\ dmarc = <<>>
    /\ \E g \in CmsHeaders : response = <<[sec |-> NoSecurityHeaders, gen |-> g]>>
    /\ bodyStream = "ended"
    /\ htmlBody \in { <<b>> : b \in HtmlBodies }
    /\ report = <<>>
    /\ dnsErr = {}
    /\ probe = ProbeIdle
    /\ page = PageIdle
    /\ two = TwoIdle
    /\ calc = CalcIdle

\* line 174: cms = identifyCMS(htmlBody, response.headers)
IdentifyCms ==
    /\ pc = "identify"
    /\ cms' = identifyCMS(htmlBody[1], response[1].gen)
    /\ pc' = "identified"
    /\ UNCHANGED <<probe, page, two, calc, dnsErr, domain, cleanDomain, score, issues, passes,
                   portSock, portOut, settleOrder, tlsSock, ssl, txt, dmarc,
                   response, bodyStream, htmlBody, report>>

NextCms == IdentifyCms

SpecCms == InitCms /\ [][NextCms]_vars

-----------------------------------------------------------------------------
(* 5. The risk calculator (riskCalculator.ts).  A JavaScript number is an  *)
(* IEEE-754 double: its value is m * 2^e, m a natural number below 2^53    *)
(* held as its digits in base 2^15, least significant first; every         *)
(* operation rounds its exact result to the nearest such value, ties to    *)
(* the even m.                                                             *)

Base == 32768

RECURSIVE Pow2(_)
Pow2(k) == IF k = 0 THEN 1 ELSE 2 * Pow2(k - 1)

RECURSIVE Trim(_)
Trim(a) ==
    IF a = <<>> THEN a
    ELSE IF a[Len(a)] = 0 THEN Trim(SubSeq(a, 1, Len(a) - 1)) ELSE a

RECURSIVE FromInt(_)
FromInt(n) == IF n = 0 THEN <<>> ELSE <<n % Base>> \o FromInt(n \div Base)

RECURSIVE ToInt(_)
ToInt(a) == IF a = <<>> THEN 0 ELSE a[1] + Base * ToInt(Tail(a))

RECURSIVE MulSmallC(_, _, _)
MulSmallC(a, d, carry) ==
    IF a = <<>> THEN FromInt(carry)
    ELSE LET t == a[1] * d + carry
         IN <<t % Base>> \o MulSmallC(Tail(a), d, t \div Base)

\* a * d for d < Base
MulSmall(a, d) == Trim(MulSmallC(a, d, 0))

RECURSIVE AddC(_, _, _)
AddC(a, b, carry) ==
    IF a = <<>> /\ b = <<>> THEN FromInt(carry)
    ELSE LET x == IF a = <<>> THEN 0 ELSE a[1]
             y == IF b = <<>> THEN 0 ELSE b[1]
             t == x + y + carry
         IN <<t % Base>> \o AddC(IF a = <<>> THEN a ELSE Tail(a),
                                 IF b = <<>> THEN b ELSE Tail(b), t \div Base)

Add(a, b) == AddC(a, b, 0)

RECURSIVE Mul(_, _)
Mul(a, b) ==
    IF a = <<>> \/ b = <<>> THEN <<>>
    ELSE LET rest == Mul(a, Tail(b))
         IN Add(MulSmall(a, b[1]), IF rest = <<>> THEN rest ELSE <<0>> \o rest)

RECURSIVE DivSmall(_, _)
\* quotient and remainder of a by d, for d < Base
DivSmall(a, d) ==
    IF a = <<>> THEN [q |-> <<>>, r |-> 0]
    ELSE LET hi == DivSmall(Tail(a), d)
             t == hi.r * Base + a[1]
         IN [q |-> Trim(<<t \div d>> \o hi.q), r |-> t % d]

RECURSIVE SmallBitLen(_)
SmallBitLen(n) == IF n = 0 THEN 0 ELSE 1 + SmallBitLen(n \div 2)

BitLen(a) ==
    IF a = <<>> THEN 0 ELSE 15 * (Len(a) - 1) + SmallBitLen(a[Len(a)])

\* a * 2^k, for a # 0
ShiftLeft(a, k) ==
    MulSmall([i \in 1..(k \div 15) |-> 0] \o a, Pow2(k % 15))

\* a \div 2^k
ShiftRight(a, k) ==
    IF k \div 15 >= Len(a) THEN <<>>
    ELSE DivSmall(SubSeq(a, k \div 15 + 1, Len(a)), Pow2(k % 15)).q

\* a % 2^k = 0
LowBitsZero(a, k) ==
    /\ \A i \in 1..Len(a) : i <= k \div 15 => a[i] = 0
    /\ k \div 15 < Len(a) => a[k \div 15 + 1] % Pow2(k % 15) = 0

\* bit i of a, bit 0 the least significant
Bit(a, i) ==
    IF i \div 15 >= Len(a) THEN 0
    ELSE (a[i \div 15 + 1] \div Pow2(i % 15)) % 2

\* round to nearest, ties to even: n, with something more below its last
\* bit when sticky, as m * 2^sh with m of at most 53 bits
Round53(n, sticky) ==
    IF BitLen(n) <= 53 THEN [m |-> n, sh |-> 0]
    ELSE LET k == BitLen(n) - 53
             q == ShiftRight(n, k)
             rest == ~LowBitsZero(n, k - 1) \/ sticky
             up == Bit(n, k - 1) = 1 /\ (rest \/ q[1] % 2 = 1)
         IN [m |-> IF up THEN Add(q, <<1>>) ELSE q, sh |-> k]

\* the double of an integer below 2^31
Num(n) == [m |-> FromInt(n), e |-> 0]

\* x * y
MulRN(x, y) ==
    IF x.m = <<>> \/ y.m = <<>> THEN Num(0)
    ELSE LET r == Round53(Mul(x.m, y.m), FALSE)
         IN [m |-> r.m, e |-> x.e + y.e + r.sh]

\* x / d for an integer d of 1..1000: the quotient is taken to 70 more bits
DivRN(x, d) ==
    IF x.m = <<>> THEN Num(0)
    ELSE LET dv == DivSmall(ShiftLeft(x.m, 70), d)
             r == Round53(dv.q, dv.r # 0)
         IN [m |-> r.m, e |-> x.e - 70 + r.sh]

\* Math.ceil, for x >= 0 with a result below 2^31
Ceil(x) ==
    IF x.m = <<>> THEN 0
    ELSE IF x.e >= 0 THEN ToInt(ShiftLeft(x.m, x.e))
    ELSE ToInt(ShiftRight(x.m, -x.e))
         + (IF LowBitsZero(x.m, -x.e) THEN 0 ELSE 1)

\* the literals 0.002, 0.005, 0.015: the double nearest to n / 1000
Thousandths(n) == DivRN(Num(n), 1000)

\* lines 3-9
INDUSTRY_DATA ==
    [marketing |-> [baseCost |-> 4500000, riskMultiplier |-> "1.2"],
     finance |-> [baseCost |-> 5600000, riskMultiplier |-> "1.5"],
     retail |-> [baseCost |-> 2000000, riskMultiplier |-> "1.0"],
     manufacturing |-> [baseCost |-> 1500000, riskMultiplier |-> "0.9"],
     other |-> [baseCost |-> 1000000, riskMultiplier |-> "1.0"]]

\* INDUSTRY_DATA[industry] || INDUSTRY_DATA["other"] (line 16)
IndustryData(industry) ==
    IF industry \in DOMAIN INDUSTRY_DATA THEN INDUSTRY_DATA[industry]
    ELSE INDUSTRY_DATA["other"]

\* lines 18-21; thousandths
SizeFactor(employeeCount) ==
    IF employeeCount < 10 THEN 2
    ELSE IF employeeCount < 50 THEN 5
    ELSE 15

\* lines 11-27
calculateFinancialRisk(industry, employeeCount, securityScore) ==
    LET data == IndustryData(industry)
        sizeFactor == Thousandths(SizeFactor(employeeCount))
        vulnerabilityFactor == DivRN(Num(100 - securityScore), 100)
        estimatedLoss == MulRN(MulRN(Num(data.baseCost), sizeFactor),
                               vulnerabilityFactor)
    IN Ceil(DivRN(estimatedLoss, 100)) * 100

\* the arguments of the calls: the industries of the table and one that is
\* not in it, the employee counts of the form (page.tsx lines 151-153) and
\* the ones next to the thresholds, every score
Industries == DOMAIN INDUSTRY_DATA \cup {"legal"}
EmployeeCounts == {5, 9, 10, 25, 49, 50, 100}
SecurityScores == 0..100

InitRisk ==
    /\ domain \in RawDomains
    /\ cleanDomain = <<>>
    /\ pc = "start"
    /\ score = 100
    /\ issues = <<>>
    /\ passes = <<>>
    /\ cms = "null"
    /\ portSock = [i \in PortIx |-> "none"]
    /\ portOut = [i \in PortIx |-> "pending"]
    /\ settleOrder = <<>>
    /\ tlsSock = "none"
    /\ ssl = <<>>
    /\ txt = <<>>
    /\ dmarc = <<>>
    /\ response = <<>>
    /\ bodyStream = "none"
    /\ htmlBody = <<>>
    /\ report = <<>>
    /\ dnsErr = {}
    /\ probe = ProbeIdle
    /\ page = PageIdle
    /\ two = TwoIdle
    /\ calc \in { <<[industry |-> i, employeeCount |-> n, securityScore |-> x,
                     ret |-> <<>>]>> :
                     i \in Industries, n \in EmployeeCounts, x \in SecurityScores }

\* a call of calculateFinancialRisk returns
Calculate ==
    /\ calc # CalcIdle
    /\ calc[1].ret = <<>>
    /\ calc' = <<[calc[1] EXCEPT !.ret =
                    <<calculateFinancialRisk(calc[1].industry,
                                             calc[1].employeeCount,
                                             calc[1].securityScore)>>]>>
    /\ UNCHANGED <<scanVars, two, probe, page>>

NextRisk == Calculate

SpecRisk == InitRisk /\ [][NextRisk]_vars

-----------------------------------------------------------------------------
(* 6. Two invocations of scanDomain against a fixed network, interleaved   *)
(* at every await, while the clock advances.  The network gives each host  *)
(* the same answers whenever it is asked.                                  *)

HostA == <<"a", ".", "i", "o">>
HostB == <<"b", ".", "i", "o">>
Hosts == {HostA, HostB}

AllHeaders ==
    [sec |-> [hsts |-> "max-age", xcto |-> "nosniff", xfo |-> "DENY",
              csp |-> "null"],
     gen |-> NoCmsHeaders]

BareHeaders == [sec |-> NoSecurityHeaders, gen |-> NoCmsHeaders]

\* what a host answers: its ports, its certificate's valid_to if it has
\* one, its TXT records, and its response and body if it serves any
HostNets ==
    { [ports |-> [i \in PortIx |-> "false"], cert |-> <<15 * DayMs>>,
       apex |-> << <<{"v=spf1"}>> >>, dmarcTxt |-> << <<{"v=DMARC1"}>> >>,
       web |-> <<[resp |-> AllHeaders, body |-> {}]>>],
      [ports |-> [i \in PortIx |-> IF i \in {2} THEN "true" ELSE "false"],
       cert |-> <<14 * DayMs>>,
       apex |-> << <<{"v=spf1", "+all"}>> >>,
       dmarcTxt |-> << <<{"v=DMARC1", "p=none"}>> >>,
       web |-> <<[resp |-> BareHeaders,
                  body |-> {"/WP-Content/", "cdn.shopify.com"}]>>],
      [ports |-> [i \in PortIx |-> IF i \in {1, 3} THEN "true" ELSE "false"],
       cert |-> <<>>, apex |-> <<>>, dmarcTxt |-> <<>>, web |-> <<>>],
      [ports |-> [i \in PortIx |-> "false"], cert |-> <<>>,
       apex |-> << <<{}>>, <<{"v=spf1"}>>, <<{"v=spf1", "+all"}>> >>,
       dmarcTxt |-> << <<{"v=DMARC1"}>>, <<{"v=DMARC1", "p=none"}>> >>,
       web |-> <<>>] }

Calls == {1, 2}

\* the clock advances by half a day at a time
TickMs == DayMs \div 2

FrameShared(k) == 1

\* the activation record that holds score, issues, passes and cms of
\* invocation k (lines 109-112: locals of the call)
Frame(k) == k

\* let score = 100; const issues = []; const passes = []; let cms = null
FreshFrame == [score |-> 100, issues |-> <<>>, passes |-> <<>>, cms |-> "null"]

NewCall(d) ==
    [domain |-> d, cleanDomain |-> <<>>, pc |-> "start",
     out |-> [i \in PortIx |-> "pending"], ssl |-> <<>>, sslAt |-> <<>>,
     txt |-> <<>>, dmarc |-> <<>>, response |-> <<>>, htmlBody |-> <<>>,
     report |-> <<>>, overlapped |-> FALSE]

InitTwo ==
    /\ domain \in RawDomains
    /\ cleanDomain = <<>>
    /\ pc = "start"
    /\ score = 100
    /\ issues = <<>>
    /\ passes = <<>>
    /\ cms = "null"
    /\ portSock = [i \in PortIx |-> "none"]
    /\ portOut = [i \in PortIx |-> "pending"]
    /\ settleOrder = <<>>
    /\ tlsSock = "none"
    /\ ssl = <<>>
    /\ txt = <<>>
    /\ dmarc = <<>>
    /\ response = <<>>
    /\ bodyStream = "none"
    /\ htmlBody = <<>>
    /\ report = <<>>
    /\ dnsErr = {}
    /\ probe = ProbeIdle
    /\ page = PageIdle
    /\ calc = CalcIdle
    /\ \E net \in [Hosts -> HostNets], d \in [Calls -> Hosts] :
         two = <<[net |-> net, clock |-> Now,
                  call |-> [k \in Calls |-> NewCall(d[k])],
                  frame |-> [k \in Calls |-> FreshFrame]]>>

CallOf(k) == two[1].call[k]
FrameOf(k) == two[1].frame[Frame(k)]
NetOf(k) == two[1].net[CallOf(k).cleanDomain]

AccOf(f) == [score |-> f.score, issues |-> f.issues, passes |-> f.passes]

WithAcc(f, acc) ==
    [f EXCEPT !.score = acc.score, !.issues = acc.issues,
              !.passes = acc.passes]

\* the other invocation is between its first await and its return
Overlaps(k) == \E j \in Calls \ {k} : two[1].call[j].pc \notin {"start", "done"}

\* a resumption of invocation k: its probe outcomes and position become c,
\* the locals of its frame f
Resume(k, c, f) ==
    /\ two' = <<[two[1] EXCEPT
                   !.call[k] = [c EXCEPT !.overlapped = @ \/ Overlaps(k)],
                   !.frame[Frame(k)] = f]>>
    /\ UNCHANGED <<scanVars, calc, probe, page>>

\* lines 105-123
TwoStart(k) ==
    /\ two # TwoIdle
    /\ CallOf(k).pc = "start"
    /\ Resume(k, [CallOf(k) EXCEPT !.cleanDomain = Normalize(CallOf(k).domain),
                                   !.pc = "ports"],
              FreshFrame)

\* lines 123-136
TwoPorts(k) ==
    /\ two # TwoIdle
    /\ CallOf(k).pc = "ports"
    /\ LET out == NetOf(k).ports
       IN Resume(k, [CallOf(k) EXCEPT !.out = out, !.pc = "ssl"],
                 WithAcc(FrameOf(k),
                         ScorePorts(AccOf(FrameOf(k)), PromiseAll(<<>>, out))))

\* lines 136-147; Date.now() (line 25) reads the clock
TwoSsl(k) ==
    /\ two # TwoIdle
    /\ CallOf(k).pc = "ssl"
    /\ LET s == IF NetOf(k).cert = <<>> THEN <<>>
                ELSE <<Summary(NetOf(k).cert[1], two[1].clock)>>
       IN Resume(k, [CallOf(k) EXCEPT !.ssl = s, !.sslAt = <<two[1].clock>>,
                                      !.pc = "spf"],
                 WithAcc(FrameOf(k), ScoreSsl(AccOf(FrameOf(k)), s)))

\* lines 147-153
TwoSpf(k) ==
    /\ two # TwoIdle
    /\ CallOf(k).pc = "spf"
    /\ LET t == NetOf(k).apex
       IN Resume(k, [CallOf(k) EXCEPT !.txt = t, !.pc = "dmarc"],
                 WithAcc(FrameOf(k), ScoreSpf(AccOf(FrameOf(k)), t)))

\* lines 153-162
TwoDmarc(k) ==
    /\ two # TwoIdle
    /\ CallOf(k).pc = "dmarc"
    /\ LET d == Find(Flat(NetOf(k).dmarcTxt), "v=DMARC1")
       IN Resume(k, [CallOf(k) EXCEPT !.dmarc = d, !.pc = "fetch"],
                 WithAcc(FrameOf(k), ScoreDmarc(AccOf(FrameOf(k)), d)))

\* lines 162-171, and 188-193 when fetch rejects
TwoFetch(k) ==
    /\ two # TwoIdle
    /\ CallOf(k).pc = "fetch"
    /\ IF NetOf(k).web = <<>>
       THEN LET f == [FrameOf(k) EXCEPT !.issues = Append(@, ScanFailedLine)]
            IN Resume(k, [CallOf(k) EXCEPT
                            !.report = <<Report(AccOf(f), f.cms)>>,
                            !.pc = "done"], f)
       ELSE Resume(k, [CallOf(k) EXCEPT
                         !.response = <<NetOf(k).web[1].resp>>,
                         !.pc = "body"], FrameOf(k))

\* lines 171-193
TwoBody(k) ==
    /\ two # TwoIdle
    /\ CallOf(k).pc = "body"
    /\ LET html == NetOf(k).web[1].body
           c == identifyCMS(html, CallOf(k).response[1].gen)
           acc == ScoreHeaders(AccOf(FrameOf(k)), CallOf(k).response[1].sec)
           f == [WithAcc(FrameOf(k), acc) EXCEPT !.cms = c]
       IN Resume(k, [CallOf(k) EXCEPT !.htmlBody = <<html>>,
                                      !.report = <<Report(AccOf(f), f.cms)>>,
                                      !.pc = "done"], f)

\* time passes
Tick ==
    /\ two # TwoIdle
    /\ two[1].clock < Now + MaxTicks * TickMs
    /\ two' = <<[two[1] EXCEPT !.clock = @ + TickMs]>>
    /\ UNCHANGED <<scanVars, calc, probe, page>>

NextTwo ==
    \/ \E k \in Calls : TwoStart(k)
    \/ \E k \in Calls : TwoPorts(k)
    \/ \E k \in Calls : TwoSsl(k)
    \/ \E k \in Calls : TwoSpf(k)
    \/ \E k \in Calls : TwoDmarc(k)
    \/ \E k \in Calls : TwoFetch(k)
    \/ \E k \in Calls : TwoBody(k)
    \/ Tick

SpecTwo == InitTwo /\ [][NextTwo]_vars

-----------------------------------------------------------------------------
(* 7. The web audit on its own: fetch has resolved in a scan whose earlier *)
(* phases are over, with every combination of the four headers, each       *)
(* absent, present with an empty value, or present with a value.           *)

WebHeaders ==
    [hsts : {"null", "", "max-age"}, xcto : {"null", "", "nosniff"},
     xfo : {"null", "", "DENY"},
     csp : {"null", "", "default-src", "frame-ancestors"}]

\* the outcomes of the earlier phases: every check passed, or none did
EarlierOutcomes ==
    { [out |-> [i \in PortIx |-> "false"], tls |-> "ended",
       ssl |-> <<Summary(15 * DayMs, Now)>>, txt |-> << <<{"v=spf1"}>> >>,
       dmarc |-> <<{"v=DMARC1"}>>],
      [out |-> [i \in PortIx |-> "true"], tls |-> "errored",
       ssl |-> <<>>, txt |-> <<>>, dmarc |-> <<>>] }

\* lines 109-156 for these outcomes
EarlierAcc(o) ==
    ScoreDmarc(
        ScoreSpf(
            ScoreSsl(
                ScorePorts([score |-> 100, issues |-> <<>>, passes |-> <<>>],
                           PromiseAll(<<>>, o.out)),
                o.ssl),
            o.txt),
        o.dmarc)

InitWeb ==
    /\ domain = HostA
    /\ cleanDomain = Normalize(domain)
    /\ pc = "body"
    /\ \E o \in EarlierOutcomes :
         /\ score = EarlierAcc(o).score
         /\ issues = EarlierAcc(o).issues
         /\ passes = EarlierAcc(o).passes
         /\ portOut = o.out
         /\ tlsSock = o.tls
         /\ ssl = o.ssl
         /\ txt = o.txt
         /\ dmarc = o.dmarc
    /\ cms = "null"
    /\ portSock = [i \in PortIx |-> "destroyed"]
    /\ settleOrder = <<>>
    /\ \E h \in WebHeaders : response = <<[sec |-> h, gen |-> NoCmsHeaders]>>
    /\ bodyStream = "open"
    /\ htmlBody = <<>>
    /\ report = <<>>
    /\ dnsErr = {}
    /\ probe = ProbeIdle
    /\ page = PageIdle
    /\ two = TwoIdle
    /\ calc = CalcIdle

NextWeb == AwaitBody

SpecWeb == InitWeb /\ [][NextWeb]_vars

-----------------------------------------------------------------------------
(* 8. One call of checkPort and one of getSSLDetails on their own.  The    *)
(* listeners stay attached to the socket, so that an event that follows    *)
(* the first one runs its handler as well.                                 *)

\* the promise of getSSLDetails: <<>> while pending, else one outcome, which
\* is <<>> for null or holds the summary
PendingSsl == <<>>

\* resolve(v) of the promise of getSSLDetails (line 9)
ResolveSsl(cur, v) == IF cur = PendingSsl THEN <<v>> ELSE cur

\* the events that may follow the first on the socket of getSSLDetails
TlsLateEvents == {"error", "timeout"}

\* what a later event makes of the socket: the handler of timeout destroys
\* it (line 30), the one of error leaves it as the runtime left it
SslSocketLate(sock, ev) ==
    IF ev = "timeout" \/ sock = "destroyed" THEN "destroyed" ELSE "errored"

InitProbe ==
    /\ domain = HostA
    /\ cleanDomain = <<>>
    /\ pc = "start"
    /\ score = 100
    /\ issues = <<>>
    /\ passes = <<>>
    /\ cms = "null"
    /\ portSock = [i \in PortIx |-> "none"]
    /\ portOut = [i \in PortIx |-> "pending"]
    /\ settleOrder = <<>>
    /\ tlsSock = "none"
    /\ ssl = <<>>
    /\ txt = <<>>
    /\ dmarc = <<>>
    /\ response = <<>>
    /\ bodyStream = "none"
    /\ htmlBody = <<>>
    /\ report = <<>>
    /\ dnsErr = {}
    /\ page = PageIdle
    /\ two = TwoIdle
    /\ calc = CalcIdle
    /\ probe = <<[port |-> [sock |-> "connecting", connects |-> 1,
                            out |-> "pending", events |-> <<>>],
                  tls |-> [sock |-> "connecting", out |-> PendingSsl,
                           validTo |-> <<>>, events |-> <<>>]]>>

\* checkPort, lines 40-42: the first event of the socket
ProbePortEvent(ev) ==
    /\ probe # ProbeIdle
    /\ probe[1].port.sock = "connecting"
    /\ probe' = <<[probe[1] EXCEPT
                     !.port.sock = "destroyed",
                     !.port.out = Settle(@, CheckPortHandler(ev)),
                     !.port.events = Append(@, ev)]>>
    /\ UNCHANGED <<scanVars, two, calc, page>>

\* checkPort, lines 40-42: a later event runs its handler too
ProbePortLate(ev) ==
    /\ probe # ProbeIdle
    /\ probe[1].port.sock # "connecting"
    /\ Len(probe[1].port.events) <= MaxLate
    /\ probe' = <<[probe[1] EXCEPT
                     !.port.sock = "destroyed",
                     !.port.out = Settle(@, CheckPortHandler(ev)),
                     !.port.events = Append(@, ev)]>>
    /\ UNCHANGED <<scanVars, two, calc, page>>

\* getSSLDetails, lines 17-30: the first event of the socket
ProbeTlsEvent(ev, validTo) ==
    /\ probe # ProbeIdle
    /\ probe[1].tls.sock = "connecting"
    /\ probe' = <<[probe[1] EXCEPT
                     !.tls.sock = SslSocket(ev),
                     !.tls.out = ResolveSsl(@, SslOutcome(ev, validTo)),
                     !.tls.validTo = IF ev = "secureConnect"
                                     THEN <<validTo>> ELSE <<>>,
                     !.tls.events = Append(@, ev)]>>
    /\ UNCHANGED <<scanVars, two, calc, page>>

\* getSSLDetails, lines 29-30: a later error or timeout
ProbeTlsLate(ev) ==
    /\ probe # ProbeIdle
    /\ probe[1].tls.sock # "connecting"
    /\ Len(probe[1].tls.events) <= MaxLate
    /\ probe' = <<[probe[1] EXCEPT
                     !.tls.sock = SslSocketLate(@, ev),
                     !.tls.out = ResolveSsl(@, <<>>),
                     !.tls.events = Append(@, ev)]>>
    /\ UNCHANGED <<scanVars, two, calc, page>>

NextProbe ==
    \/ \E ev \in SocketEvents : ProbePortEvent(ev)
    \/ \E ev \in SocketEvents : ProbePortLate(ev)
    \/ \E ev \in TlsEvents, validTo \in ValidTos : ProbeTlsEvent(ev, validTo)
    \/ \E ev \in TlsLateEvents : ProbeTlsLate(ev)

SpecProbe == InitProbe /\ [][NextProbe]_vars

-----------------------------------------------------------------------------
(* The report as a function of the probe outcomes: lines 109-193 taken in  *)
(* sequence, for the outcomes out (ports), s (TLS), answer (apex TXT), d   *)
(* (DMARC chunk found) and, when webOk, the response resp with body html.  *)

ScanOf(out, s, answer, d, webOk, resp, html) ==
    LET a0 == [score |-> 100, issues |-> <<>>, passes |-> <<>>]
        a1 == IF Rejected(out) THEN a0
              ELSE ScorePorts(a0, PromiseAll(<<>>, out))
        a2 == ScoreSsl(a1, s)
        a3 == ScoreSpf(a2, answer)
        a4 == ScoreDmarc(a3, d)
    IN IF webOk
       THEN Report(ScoreHeaders(a4, resp[1].sec),
                   identifyCMS(html[1], resp[1].gen))
       ELSE Report([a4 EXCEPT !.issues = Append(@, ScanFailedLine)], "null")

-----------------------------------------------------------------------------
(* The page, page.tsx: the component Home. Its state is the React state of *)
(* lines 26-41; every handler runs to completion and its setters take      *)
(* effect together at the next render. handleScan is suspended at the      *)
(* await of line 50 with the values of domain, industry and employees of   *)
(* the render in which the button was clicked (its closure).               *)

\* what the domain field can hold: nothing or one of the two hosts
PageDomains == {<<>>} \cup Hosts

\* options of the selectors that are used (lines 141-145 and 151-153)
PageIndustries == {"marketing", "finance"}
PageEmployees == {5, 25}

\* the reports scanDomain can resolve with: one per answering network
ScanReports ==
    { ScanOf(n.ports,
             IF n.cert = <<>> THEN <<>> ELSE <<Summary(n.cert[1], Now)>>,
             n.apex, Find(Flat(n.dmarcTxt), "v=DMARC1"), n.web # <<>>,
             IF n.web = <<>> THEN <<>> ELSE <<n.web[1].resp>>,
             IF n.web = <<>> THEN <<>> ELSE <<n.web[1].body>>) : n \in HostNets }

\* issue.includes(word), lines 71 and 87 and 238
Includes(issue, word) == \E k \in 1..Len(issue) : issue[k] = word

\* the state after the first render (lines 26-41); call is the handleScan
\* suspended at line 50, scanned the inputs of the last scan that completed
PageMounted ==
    [domain |-> <<>>, industry |-> "marketing", employees |-> 5,
     loading |-> FALSE, showResults |-> FALSE, riskScore |-> 0,
     financialLoss |-> 0, issues |-> <<>>, passes |-> <<>>,
     detectedCMS |-> "null", selectedFix |-> <<>>, copySuccess |-> FALSE,
     call |-> <<>>, scanned |-> <<>>]

InitPage ==
    /\ domain = HostA
    /\ cleanDomain = <<>>
    /\ pc = "start"
    /\ score = 100
    /\ issues = <<>>
    /\ passes = <<>>
    /\ cms = "null"
    /\ portSock = [i \in PortIx |-> "none"]
    /\ portOut = [i \in PortIx |-> "pending"]
    /\ settleOrder = <<>>
    /\ tlsSock = "none"
    /\ ssl = <<>>
    /\ txt = <<>>
    /\ dmarc = <<>>
    /\ response = <<>>
    /\ bodyStream = "none"
    /\ htmlBody = <<>>
    /\ report = <<>>
    /\ dnsErr = {}
    /\ probe = ProbeIdle
    /\ two = TwoIdle
    /\ calc = CalcIdle
    /\ page = <<PageMounted>>

\* line 136: the domain field is edited (it is never disabled)
SetDomain(d) ==
    /\ page # PageIdle
    /\ page' = <<[page[1] EXCEPT !.domain = d]>>
    /\ UNCHANGED <<scanVars, two, calc, probe>>

\* line 140: an industry is selected
SetIndustry(i) ==
    /\ page # PageIdle
    /\ page' = <<[page[1] EXCEPT !.industry = i]>>
    /\ UNCHANGED <<scanVars, two, calc, probe>>

\* line 150: a company size is selected
SetEmployees(n) ==
    /\ page # PageIdle
    /\ page' = <<[page[1] EXCEPT !.employees = n]>>
    /\ UNCHANGED <<scanVars, two, calc, probe>>

\* lines 43-50: the button (enabled while loading is false, line 157) is
\* clicked; with a domain the call of scanDomain is sent
HandleScan ==
    /\ page # PageIdle
    /\ ~page[1].loading
    /\ page' = IF page[1].domain = <<>> THEN page
               ELSE <<[page[1] EXCEPT
                         !.loading = TRUE,
                         !.showResults = FALSE,
                         !.selectedFix = <<>>,
                         !.copySuccess = FALSE,
                         !.call = <<[domain |-> page[1].domain,
                                     industry |-> page[1].industry,
                                     employees |-> page[1].employees]>>]>>
    /\ UNCHANGED <<scanVars, two, calc, probe>>

\* lines 50-60: the call resolves with result and handleScan runs to its end
ScanResolves(result) ==
    /\ page # PageIdle
    /\ page[1].call # <<>>
    /\ LET c == page[1].call[1]
           loss == calculateFinancialRisk(c.industry, c.employees,
                                          result.score)
       IN page' = <<[page[1] EXCEPT
                       !.riskScore = result.score,
                       !.financialLoss = loss,
                       !.issues = result.issues,
                       !.passes = result.passes,
                       !.detectedCMS = result.cms,
                       !.loading = FALSE,
                       !.showResults = TRUE,
                       !.call = <<>>,
                       !.scanned = <<[domain |-> c.domain,
                                      industry |-> c.industry]>>]>>
    /\ UNCHANGED <<scanVars, two, calc, probe>>

\* line 50: the call rejects (the request to the server fails); the await
\* throws, nothing catches it and lines 51-60 are not run
ScanRejects ==
    /\ page # PageIdle
    /\ page[1].call # <<>>
    /\ page' = <<[page[1] EXCEPT !.call = <<>>]>>
    /\ UNCHANGED <<scanVars, two, calc, probe>>

\* the record of the DMARC fix is written with the domain of the field;
\* the SPF template names no domain
FixFor(issue, field) ==
    IF Includes(issue, "DMARC") THEN <<[title |-> "DMARC", domain |-> <<field>>]>>
    ELSE <<[title |-> "SPF", domain |-> <<>>]>>

\* lines 69-104 and 238-239: the fix button of issue k of the results
GenerateFix(k) ==
    /\ page # PageIdle
    /\ page[1].showResults
    /\ k \in 1..Len(page[1].issues)
    /\ Includes(page[1].issues[k], "DMARC") \/ Includes(page[1].issues[k], "SPF")
    /\ page' = <<[page[1] EXCEPT
                    !.copySuccess = FALSE,
                    !.selectedFix = FixFor(page[1].issues[k], page[1].domain)]>>
    /\ UNCHANGED <<scanVars, two, calc, probe>>

\* line 279: the fix box is closed
CloseFix ==
    /\ page # PageIdle
    /\ page[1].showResults
    /\ page[1].selectedFix # <<>>
    /\ page' = <<[page[1] EXCEPT !.selectedFix = <<>>]>>
    /\ UNCHANGED <<scanVars, two, calc, probe>>

\* lines 62-64 and 286: the record is copied
HandleCopy ==
    /\ page # PageIdle
    /\ page[1].showResults
    /\ page[1].selectedFix # <<>>
    /\ page' = <<[page[1] EXCEPT !.copySuccess = TRUE]>>
    /\ UNCHANGED <<scanVars, two, calc, probe>>

\* line 65: a timer of handleCopy fires while the mark is shown (a timer
\* that fires later finds it false and changes nothing)
CopyTimeout ==
    /\ page # PageIdle
    /\ page[1].copySuccess
    /\ page' = <<[page[1] EXCEPT !.copySuccess = FALSE]>>
    /\ UNCHANGED <<scanVars, two, calc, probe>>

\* line 232: the issues the results list
PageIssues == IF page = PageIdle THEN <<>> ELSE page[1].issues

NextPage ==
    \/ \E d \in PageDomains : SetDomain(d)
    \/ \E i \in PageIndustries : SetIndustry(i)
    \/ \E n \in PageEmployees : SetEmployees(n)
    \/ HandleScan
    \/ \E result \in ScanReports : ScanResolves(result)
    \/ ScanRejects
    \/ \E k \in DOMAIN PageIssues : GenerateFix(k)
    \/ CloseFix
    \/ HandleCopy
    \/ CopyTimeout

SpecPage == InitPage /\ [][NextPage]_vars

-----------------------------------------------------------------------------
(* Vocabulary of the properties.                                           *)

Returned == pc = "done"

Mentions(line, word) == \E k \in 1..Len(line) : line[k] = word

RECURSIVE CountMentions(_, _)
CountMentions(lines, word) ==
    IF lines = <<>> THEN 0
    ELSE (IF Mentions(Head(lines), word) THEN 1 ELSE 0)
         + CountMentions(Tail(lines), word)

IsPortLine(line) == Len(line) >= 2 /\ line[1] = "Open" /\ line[2] = "Port:"

RECURSIVE CatalogLines(_, _)
\* the lines of the open ports of entries k.., in catalog order
CatalogLines(out, k) ==
    IF k > Len(portsToCheck) THEN <<>>
    ELSE (IF out[k] = "true" THEN <<PortLine(portsToCheck[k])>> ELSE <<>>)
         \o CatalogLines(out, k + 1)

NoPortOpen == \A i \in PortIx : portOut[i] # "true"

\* a chunk holding a DMARC record that is not monitor-only
StrongDmarc == <<{"v=DMARC1"}>>

WebOk == bodyStream = "ended"

\* the score of the scan with the same outcomes and a strong DMARC record
StrongDmarcScore ==
    ScanOf(portOut, ssl, txt, StrongDmarc, WebOk, response, htmlBody).score

HasSchemeOrWww(s) ==
    \/ HasPrefixCI(s, HttpsScheme)
    \/ HasPrefixCI(s, HttpScheme)
    \/ HasPrefixCI(s, WwwDot)

\* "https://www." + s + "/path"
Wrap(s) == HttpsScheme \o WwwDot \o s \o <<"/", "p", "a", "t", "h">>

-----------------------------------------------------------------------------
(* The properties.                                                         *)

\* C1: the score of every returned report is an integer of [0, 100],
\* whatever the probes gave.
C1_ScoreInRange == Returned => report[1].score \in 0..100

\* C1, witness: a report whose running total went below zero.
C1_Witness == Returned /\ score < 0 /\ report[1].score = 0

\* C2 as stated: with DMARC absent, one issue mentions DMARC and the score
\* is exactly 30 below that of the same scan with a strong DMARC record.
C2_Original ==
    (Returned /\ dmarc = <<>>) =>
        /\ CountMentions(report[1].issues, "DMARC") = 1
        /\ report[1].score = StrongDmarcScore - 30

\* C2 as amended: with DMARC absent, one issue mentions DMARC and the score
\* is the score of the same scan with a strong DMARC record less 30, floored
\* at 0 (exactly 30 lower whenever that score is at least 30).
C2_Amended ==
    (Returned /\ dmarc = <<>>) =>
        /\ CountMentions(report[1].issues, "DMARC") = 1
        /\ report[1].score = Max(0, StrongDmarcScore - 30)

\* C2, witness: DMARC absent in a scan that keeps a positive score.
C2_Witness ==
    /\ Returned
    /\ dmarc = <<>>
    /\ report[1].score > 0
    /\ report[1].score = StrongDmarcScore - 30

\* C3: ports all closed, certificate valid for more than 14 days, SPF and
\* DMARC strong, and the three headers present: score 100 and no issue.
C3_Precondition ==
    /\ Returned
    /\ \A i \in PortIx : portOut[i] = "false"
    /\ ssl # <<>> /\ ssl[1].valid /\ ssl[1].daysRemaining > 14
    /\ \E k \in 1..Len(Flat(txt)) : "v=spf1" \in Flat(txt)[k]
    /\ \A k \in 1..Len(Flat(txt)) : "+all" \notin Flat(txt)[k]
    /\ dmarc # <<>> /\ "p=none" \notin dmarc[1]
    /\ WebOk
    /\ Truthy(response[1].sec.hsts)
    /\ Truthy(response[1].sec.xcto)
    /\ Truthy(response[1].sec.xfo) \/ response[1].sec.csp = "frame-ancestors"

C3_AllPass ==
    C3_Precondition => report[1].score = 100 /\ report[1].issues = <<>>

\* C3, witness: such a scan has returned.
C3_Witness == C3_Precondition /\ Len(report[1].passes) = 7

\* C4: once the port phase is scored, the port lines are the lines of the
\* open ports in catalog order and the pass line depends on the outcomes
\* only, in whatever order the probes settled.
C4_CatalogOrder ==
    pc \notin {"start", "ports"} =>
        /\ SelectSeq(issues, IsPortLine) = CatalogLines(portOut, 1)
        /\ SubSeq(issues, 1, Len(CatalogLines(portOut, 1)))
             = CatalogLines(portOut, 1)
        /\ Len(passes) >= 1 /\ passes[1] = FirewalledLine <=> NoPortOpen

\* C4, witness: the probes settled in the reverse of the catalog order, all
\* open, and the phase is scored.
C4_Witness ==
    /\ pc = "ssl"
    /\ settleOrder = <<5, 4, 3, 2, 1>>
    /\ Len(issues) = 5
    /\ issues[1] = <<"Open", "Port:", "21", "FTP">>
    /\ issues[5] = <<"Open", "Port:", "5432", "PostgreSQL">>

\* C5 as stated: a scan whose domain normalized to a host name returns.
C5_Terminates == (pc = "ports" /\ cleanDomain # <<>>) ~> Returned

\* C6 as stated: when the domain normalizes to the empty string no probe is
\* started and no report is returned.
C6_InvalidDomain ==
    (pc # "start" /\ cleanDomain = <<>>) =>
        /\ \A i \in PortIx : portSock[i] = "none"
        /\ tlsSock = "none"
        /\ report = <<>>

\* C7 as stated: normalize("https://www." + s + "/path") = normalize(s) for
\* every raw string s.
C7_Original == pc # "start" => Normalize(Wrap(domain)) = cleanDomain

\* C7 as amended: the same for every s that does not itself begin with
\* http://, https:// or www. (compared without case).
C7_Amended ==
    (pc # "start" /\ ~HasSchemeOrWww(domain)) =>
        Normalize(Wrap(domain)) = cleanDomain

\* C7, witness: a string with a path of its own has been normalized.
C7_Witness ==
    /\ pc # "start"
    /\ domain = <<"a", "/", "a">>
    /\ cleanDomain = <<"a">>
    /\ Normalize(Wrap(domain)) = <<"a">>

\* C8: a probe that timed out or failed suppresses nothing: every port
\* probe reaches its own outcome and is scored, and the TLS, SPF, DMARC and
\* web phases each contribute their lines whatever came before.
C8_NoCancellation ==
    /\ pc \notin {"start", "ports"} =>
         \A i \in PortIx :
            /\ portOut[i] \in {"true", "false"}
            /\ portOut[i] = "true" <=>
                 \E k \in 1..Len(issues) : issues[k] = PortLine(portsToCheck[i])
    /\ pc \in {"spf", "dmarc", "fetch", "body", "done"} =>
         CountMentions(issues \o passes, "SSL") = 1
    /\ pc \in {"dmarc", "fetch", "body", "done"} =>
         CountMentions(issues \o passes, "SPF") = 1
    /\ pc \in {"fetch", "body", "done"} =>
         CountMentions(issues \o passes, "DMARC") = 1
    /\ Returned =>
         \/ CountMentions(issues, "Website") = 1
         \/ CountMentions(issues \o passes, "HSTS") = 1

\* C8, witness: a returned scan in which some ports were closed by timeout
\* or error and another was open, the TLS probe gave nothing and the reading
\* of the body failed.
C8_Witness ==
    /\ Returned
    /\ portOut[1] = "false" /\ portOut[2] = "true" /\ portOut[3] = "false"
    /\ tlsSock = "destroyed"
    /\ bodyStream = "aborted"
    /\ report[1].issues[1] = <<"Open", "Port:", "22", "SSH">>

\* C9: as long as a port probe is pending nothing is scored.
C9_Join ==
    (\E i \in PortIx : portOut[i] = "pending") =>
        score = 100 /\ issues = <<>> /\ passes = <<>>

\* C9, witness: four probes have settled, one of them open, one is pending
\* and nothing is scored.
C9_Witness ==
    /\ pc = "ports"
    /\ Len(settleOrder) = 4
    /\ portOut[1] = "true"
    /\ portOut[5] = "pending"
    /\ score = 100

\* C10: whenever the scan waits, every port probe has been started: none
\* is started after another has settled.
C10_FanOut ==
    /\ pc # "start" => \A i \in PortIx : portSock[i] # "none"
    /\ \A i \in PortIx :
         portSock[i] = "none" => \A j \in PortIx : portOut[j] = "pending"

\* C10, witness: the scan waits with its five probes in flight.
C10_Witness ==
    /\ pc = "ports"
    /\ \A i \in PortIx : portSock[i] = "connecting" /\ portOut[i] = "pending"

\* C11: when fetch or the reading of the body fails, the report gains the
\* one line of the failed web audit and nothing else: no deduction, no
\* header line, cms none, and the earlier score and lines are kept.
C11_WebFailureFrame ==
    [][(pc \in {"fetch", "body"} /\ pc' = "done" /\ bodyStream' # "ended") =>
          /\ issues' = Append(issues, ScanFailedLine)
          /\ passes' = passes
          /\ score' = score
          /\ report'[1] = [score |-> Max(0, score), issues |-> issues',
                           passes |-> passes, cms |-> "null"]
          /\ CountMentions(issues' \o passes', "HSTS") = 0
          /\ CountMentions(issues' \o passes', "X-Content-Type-Options") = 0
          /\ CountMentions(issues' \o passes', "Sniffing") = 0
          /\ CountMentions(issues' \o passes', "Clickjacking") = 0]_vars

\* C11, witness: a scan returned after the reading of the body failed, with
\* the ports, TLS and DNS lines before the line of the failed audit.
C11_Witness ==
    /\ Returned
    /\ bodyStream = "aborted"
    /\ Len(report[1].issues) = 4
    /\ report[1].issues[4] = ScanFailedLine
    /\ report[1].score = 30
    /\ report[1].cms = "null"

\* C12 as stated: when the apex lookup has failed, the DNS phase leaves one
\* issue line, and the scan goes on to the web phase.
C12_SingleDnsIssue ==
    (pc = "fetch" /\ "apex" \in dnsErr) =>
        CountMentions(issues, "SPF") + CountMentions(issues, "DMARC")
          + CountMentions(issues, "DNS") = 1

\* C13: no failure of a probe makes scanDomain reject: a port probe that
\* failed is closed, a TLS probe that failed gives no summary, a lookup that
\* failed gives no record, and a web audit that failed still returns.
C13_NeverRejects ==
    /\ pc # "rejected"
    /\ \A i \in PortIx : portOut[i] \in {"pending", "true", "false"}
    /\ (pc \notin {"start", "ports", "ssl"}
          /\ tlsSock \in {"errored", "destroyed"}) => ssl = <<>>
    /\ (pc = "fetch" /\ "apex" \in dnsErr) => txt = <<>>
    /\ (pc = "fetch" /\ "dmarc" \in dnsErr) => dmarc = <<>>
    /\ bodyStream = "aborted" => Returned /\ report # <<>>

\* C13, witness: every probe failed and the scan returned a report.
C13_Witness ==
    /\ Returned
    /\ \A i \in PortIx : portOut[i] = "false"
    /\ tlsSock = "errored"
    /\ txt = <<>> /\ dmarc = <<>>
    /\ bodyStream = "none"
    /\ report[1].score = 30
    /\ Len(report[1].issues) = 4

\* C18: after the port phase the score is 100 less 20 for each open port of
\* Critical tier and 10 for each other open port; each open port has exactly
\* one issue line, naming its port and service; and there is exactly one
\* pass line if no port is open, none otherwise.
C18_PortScoring ==
    pc = "ssl" =>
        LET open == {i \in PortIx : portOut[i] = "true"}
            critical == {i \in open : portsToCheck[i].port \in {3389, 3306, 5432}}
        IN /\ score = 100 - 20 * Cardinality(critical)
                           - 10 * Cardinality(open \ critical)
           /\ Len(issues) = Cardinality(open)
           /\ \A i \in open :
                 Cardinality({k \in 1..Len(issues) :
                     /\ Mentions(issues[k], ToString(portsToCheck[i].port))
                     /\ Mentions(issues[k], portsToCheck[i].service)}) = 1
           /\ passes = IF open = {} THEN <<FirewalledLine>> ELSE <<>>

C18_Witness ==
    /\ pc = "ssl"
    /\ portOut = <<"true", "false", "true", "true", "false">>
    /\ score = 50
    /\ Len(issues) = 3

\* the lines of the report, issues and passes, that the SPF check wrote
SpfLines(lines) == CountMentions(lines, "SPF")

\* some TXT value of the answer contains v=spf1 and also +all
SomeSpfPermissive(answer) ==
    \E k \in 1..Len(Flat(answer)) :
        "v=spf1" \in Flat(answer)[k] /\ "+all" \in Flat(answer)[k]

\* C19: when the SPF check has run it has written exactly one line and
\* taken 0 or 20 points: the missing-SPF issue and 20 when no TXT value
\* contains v=spf1, the permissive issue and 20 when a TXT value that
\* contains v=spf1 also contains +all, a pass line and nothing otherwise.
C19_SpfScoring ==
    [][(pc = "spf" /\ pc' = "dmarc") =>
         /\ SpfLines(issues') + SpfLines(passes')
              = SpfLines(issues) + SpfLines(passes) + 1
         /\ IF Find(Flat(txt'), "v=spf1") = <<>>
            THEN /\ score' = score - 20
                 /\ issues' = Append(issues, <<"Missing", "SPF", "Record">>)
                 /\ passes' = passes
            ELSE IF SomeSpfPermissive(txt')
            THEN /\ score' = score - 20
                 /\ issues' = Append(issues,
                                     <<"SPF", "Record", "unsafe", "('+all')">>)
                 /\ passes' = passes
            ELSE /\ score' = score
                 /\ issues' = issues
                 /\ passes' = Append(passes, <<"SPF", "Record", "Detected">>)]_vars

\* C20: the TLS phase takes 20 points and writes one issue when the probe
\* gave no summary or the summary is not valid, takes 10 and writes one
\* issue when the summary is valid with fewer than 14 days remaining, and
\* otherwise leaves the score and writes one pass line citing the days
\* remaining; it writes no other line.
C20_TlsScoring ==
    [][(pc = "ssl" /\ pc' = "spf") =>
         IF ssl' = <<>> \/ ~ssl'[1].valid
         THEN /\ score' = score - 20
              /\ Len(issues') = Len(issues) + 1
              /\ SubSeq(issues', 1, Len(issues)) = issues
              /\ Mentions(issues'[Len(issues')], "SSL")
              /\ passes' = passes
         ELSE IF ssl'[1].daysRemaining < 14
         THEN /\ score' = score - 10
              /\ Len(issues') = Len(issues) + 1
              /\ SubSeq(issues', 1, Len(issues)) = issues
              /\ Mentions(issues'[Len(issues')], "SSL")
              /\ passes' = passes
         ELSE /\ score' = score
              /\ issues' = issues
              /\ Len(passes') = Len(passes) + 1
              /\ SubSeq(passes', 1, Len(passes)) = passes
              /\ Mentions(passes'[Len(passes')], "SSL")
              /\ Mentions(passes'[Len(passes')],
                          ToString(ssl'[1].daysRemaining))]_vars

C20_Witness ==
    /\ pc = "spf"
    /\ ssl # <<>>
    /\ ~ssl[1].valid
    /\ NoPortOpen
    /\ score = 80
    /\ issues = << <<"SSL", "Certificate", "EXPIRED">> >>

\* the platforms in the order of the claim, each with the texts that mark
\* it in a lowercased body
Platforms ==
    << [name |-> "WordPress",
        body |-> {"/wp-content/", "/wp-includes/", "wp-json",
                  "class=\"wp-block", "id=\"wp-admin-bar"}],
       [name |-> "Shopify",
        body |-> {"cdn.shopify.com", "window.shopify", "shopify-section"}],
       [name |-> "Squarespace",
        body |-> {"static1.squarespace.com", "squarespace-core"}],
       [name |-> "Wix", body |-> {"wix.com", "wix-warmup-data"}],
       [name |-> "Joomla",
        body |-> {"joomla", "/templates/system/css/system.css"}],
       [name |-> "Drupal", body |-> {"drupal", "sites/default/files"}] >>

\* the header that marks a platform is present
HeaderMarks(name, g) ==
    \/ name = "WordPress" /\ g.poweredBy = "WP Engine"
    \/ name = "Squarespace" /\ g.servedBy = "Squarespace"
    \/ name = "Wix" /\ g.wixId \notin {"null", ""}

\* the platforms of which a marker is present in the body or the headers
\* identifyCMS was called with
Marked ==
    { k \in 1..Len(Platforms) :
        \/ \E m \in htmlBody[1] : LowerMarker(m) \in Platforms[k].body
        \/ HeaderMarks(Platforms[k].name, response[1].gen) }

\* C16: identifyCMS returns the earliest platform, in the order WordPress,
\* Shopify, Squarespace, Wix, Joomla, Drupal, of which a marker is present,
\* and none exactly when no marker of any platform is present.
C16_FirstMatch ==
    pc = "identified" =>
        /\ Marked = {} => cms = "null"
        /\ Marked # {} =>
              \E k \in Marked : /\ cms = Platforms[k].name
                                /\ \A j \in Marked : k <= j

C16_Witness ==
    /\ pc = "identified"
    /\ htmlBody = <<{"/WP-Content/", "cdn.shopify.com"}>>
    /\ response[1].gen.wixId = "id"
    /\ cms = "WordPress"

\* 100 times baseCost * sizeFactor * (100 - score) / 100, taken exactly: an
\* integer, every baseCost being a multiple of 1000
ExactLossHundredths(c) ==
    (INDUSTRY_DATA[c.industry].baseCost \div 1000)
        * SizeFactor(c.employeeCount) * (100 - c.securityScore)

\* C17: for an industry of the table, calculateFinancialRisk returns the
\* smallest multiple of 100 that is at least baseCost * sizeFactor *
\* (100 - score) / 100, and 6200 for ("finance", 5, 45).
C17_CeilToHundred ==
    (calc # CalcIdle /\ calc[1].ret # <<>>
        /\ calc[1].industry \in DOMAIN INDUSTRY_DATA) =>
        LET r == calc[1].ret[1]
        IN /\ r % 100 = 0
           /\ r * 100 >= ExactLossHundredths(calc[1])
           /\ (r - 100) * 100 < ExactLossHundredths(calc[1])
           /\ (/\ calc[1].industry = "finance"
               /\ calc[1].employeeCount = 5
               /\ calc[1].securityScore = 45) => r = 6200

BothReturned == two # TwoIdle /\ \A k \in Calls : two[1].call[k].pc = "done"

SameDomain == two[1].call[1].domain = two[1].call[2].domain

\* the whole days from the TLS probe of invocation k to the expiry of the
\* certificate of its host
DaysLeft(k) ==
    (two[1].net[two[1].call[k].cleanDomain].cert[1] - two[1].call[k].sslAt[1])
        \div DayMs

\* C14 as stated: against a fixed network, two invocations on the same
\* domain return identical reports, whenever each of them runs.
C14_Original ==
    (BothReturned /\ SameDomain) =>
        two[1].call[1].report = two[1].call[2].report

\* C14 amended: against a fixed network, two invocations on the same domain
\* return identical reports provided the host offers no certificate or the
\* whole days to its expiry are the same at the time of both TLS probes.
C14_Amended ==
    (/\ BothReturned
     /\ SameDomain
     /\ \/ two[1].net[two[1].call[1].cleanDomain].cert = <<>>
        \/ DaysLeft(1) = DaysLeft(2)) =>
        two[1].call[1].report = two[1].call[2].report

C14_Witness ==
    /\ BothReturned
    /\ SameDomain
    /\ two[1].net[two[1].call[1].cleanDomain].cert # <<>>
    /\ two[1].call[1].sslAt # two[1].call[2].sslAt
    /\ DaysLeft(1) = DaysLeft(2)
    /\ two[1].call[1].report = two[1].call[2].report
    /\ Len(two[1].call[1].report[1].passes) = 7

\* the report of invocation k run alone: the answers of its host, folded
\* in the order of the phases, the certificate read at the time of its own
\* TLS probe
Alone(k) ==
    LET c == two[1].call[k]
        n == two[1].net[c.cleanDomain]
    IN ScanOf(n.ports,
              IF n.cert = <<>> THEN <<>> ELSE <<Summary(n.cert[1], c.sslAt[1])>>,
              n.apex, Find(Flat(n.dmarcTxt), "v=DMARC1"), n.web # <<>>,
              IF n.web = <<>> THEN <<>> ELSE <<n.web[1].resp>>,
              IF n.web = <<>> THEN <<>> ELSE <<n.web[1].body>>)

\* C15: however two invocations are interleaved, each returns the report it
\* returns when run alone.
C15_Isolation ==
    two # TwoIdle =>
        \A k \in Calls :
            two[1].call[k].pc = "done" => two[1].call[k].report = <<Alone(k)>>

C15_Witness ==
    /\ BothReturned
    /\ ~SameDomain
    /\ two[1].call[1].overlapped
    /\ two[1].call[2].overlapped
    /\ two[1].call[1].report[1].score = 100
    /\ two[1].call[2].report[1].score = 0
    /\ Len(two[1].call[2].report[1].issues) = 6

\* a header is present: headers.get gives a value that is not empty
HeaderPresent(v) == v \notin {"null", ""}

\* an X-Frame-Options header is present or the Content-Security-Policy
\* header contains frame-ancestors
FrameProtected(h) == HeaderPresent(h.xfo) \/ h.csp = "frame-ancestors"

Lines(lines) == {lines[k] : k \in 1..Len(lines)}

\* C21: when the body has been read, the HSTS check took 10 points and wrote
\* an issue if the header is missing and wrote a pass otherwise, the no-sniff
\* check likewise with 5 points, and the frame check likewise with 5 points,
\* frame protection being an X-Frame-Options header or a
\* Content-Security-Policy with frame-ancestors; three lines are written,
\* one per check.
C21_HeaderScoring ==
    [][(pc = "body" /\ pc' = "done" /\ bodyStream' = "ended") =>
         LET h == response[1].sec
             new == (Lines(issues') \cup Lines(passes'))
                        \ (Lines(issues) \cup Lines(passes))
         IN /\ score' = score - (IF HeaderPresent(h.hsts) THEN 0 ELSE 10)
                              - (IF HeaderPresent(h.xcto) THEN 0 ELSE 5)
                              - (IF FrameProtected(h) THEN 0 ELSE 5)
            /\ Len(issues') + Len(passes') = Len(issues) + Len(passes) + 3
            /\ SubSeq(issues', 1, Len(issues)) = issues
            /\ SubSeq(passes', 1, Len(passes)) = passes
            /\ Cardinality(new) = 3
            /\ IF HeaderPresent(h.hsts)
               THEN <<"HSTS", "Enabled">> \in Lines(passes')
               ELSE <<"Missing", "HSTS", "Header">> \in Lines(issues')
            /\ IF HeaderPresent(h.xcto)
               THEN <<"Content", "Sniffing", "Protection", "Active">>
                        \in Lines(passes')
               ELSE <<"Missing", "X-Content-Type-Options">> \in Lines(issues')
            /\ IF FrameProtected(h)
               THEN <<"Clickjacking", "Protection", "Active">> \in Lines(passes')
               ELSE <<"Missing", "Clickjacking", "Protection">>
                        \in Lines(issues')]_vars

C21_Witness ==
    /\ pc = "done"
    /\ bodyStream = "ended"
    /\ response[1].sec = [hsts |-> "", xcto |-> "nosniff", xfo |-> "null",
                          csp |-> "frame-ancestors"]
    /\ score = 90
    /\ Len(passes) = 6
    /\ issues = << <<"Missing", "HSTS", "Header">> >>

\* the TXT values that _dmarc.<domain> of invocation k answers with
DmarcValues(k) == Flat(two[1].net[two[1].call[k].cleanDomain].dmarcTxt)

\* C22: the DMARC check takes 30 points and writes one issue when no TXT
\* value at _dmarc.<domain> contains v=DMARC1, takes 10 and writes one issue
\* when a value that contains v=DMARC1 also contains p=none, and otherwise
\* leaves the score and writes one pass line.
C22_DmarcScoring ==
    [][\A k \in Calls :
         (/\ two # TwoIdle
          /\ two[1].call[k].pc = "dmarc"
          /\ two'[1].call[k].pc = "fetch") =>
             LET v == DmarcValues(k)
                 f == two[1].frame[k]
                 g == two'[1].frame[k]
             IN IF \A i \in 1..Len(v) : "v=DMARC1" \notin v[i]
                THEN /\ g.score = f.score - 30
                     /\ g.issues = Append(f.issues,
                                          <<"Missing", "DMARC", "Record">>)
                     /\ g.passes = f.passes
                ELSE IF \E i \in 1..Len(v) :
                            "v=DMARC1" \in v[i] /\ "p=none" \in v[i]
                THEN /\ g.score = f.score - 10
                     /\ g.issues = Append(f.issues, <<"DMARC", "Policy", "weak",
                                                      "('p=none')">>)
                     /\ g.passes = f.passes
                ELSE /\ g.score = f.score
                     /\ g.issues = f.issues
                     /\ g.passes = Append(f.passes,
                                          <<"DMARC", "Record", "Active">>)]_vars

\* C23: a lookup that fails is scored as an absent record, 20 points and the
\* missing-SPF issue for the apex, 30 and the missing-DMARC issue for
\* _dmarc.<domain>; after a failed apex lookup the DMARC lookup is scored on
\* its own answer; and the scan goes on.
C23_FailureAsAbsent ==
    [][/\ (pc = "spf" /\ "apex" \in dnsErr') =>
             /\ pc' = "dmarc"
             /\ txt' = <<>>
             /\ score' = score - 20
             /\ issues' = Append(issues, <<"Missing", "SPF", "Record">>)
             /\ passes' = passes
       /\ (pc = "dmarc" /\ "dmarc" \in dnsErr') =>
             /\ pc' = "fetch"
             /\ dmarc' = <<>>
             /\ score' = score - 30
             /\ issues' = Append(issues, <<"Missing", "DMARC", "Record">>)
             /\ passes' = passes
       /\ (pc = "dmarc" /\ "apex" \in dnsErr /\ "dmarc" \notin dnsErr') =>
             /\ pc' = "fetch"
             /\ dmarc' = <<>> =>
                  issues' = Append(issues, <<"Missing", "DMARC", "Record">>)
             /\ (dmarc' # <<>> /\ "p=none" \in dmarc'[1]) =>
                  /\ score' = score - 10
                  /\ issues' = Append(issues, <<"DMARC", "Policy", "weak",
                                                "('p=none')">>)
             /\ (dmarc' # <<>> /\ "p=none" \notin dmarc'[1]) =>
                  /\ score' = score
                  /\ passes' = Append(passes, <<"DMARC", "Record", "Active">>)
      ]_vars

C23_Witness ==
    /\ pc = "fetch"
    /\ dnsErr = {"apex"}
    /\ txt = <<>>
    /\ dmarc = <<{"v=DMARC1"}>>
    /\ <<"Missing", "SPF", "Record">> \in Lines(issues)
    /\ <<"DMARC", "Record", "Active">> \in Lines(passes)
    /\ score = 80

\* C24: checkPort connects once; as soon as an event has occurred its
\* outcome is true if the first event was connect and false otherwise, and
\* stays so whatever events follow.
C24_OneOutcome ==
    probe # ProbeIdle =>
        /\ probe[1].port.connects = 1
        /\ probe[1].port.events = <<>> => probe[1].port.out = "pending"
        /\ probe[1].port.events # <<>> =>
              probe[1].port.out = IF probe[1].port.events[1] = "connect"
                                  THEN "true" ELSE "false"

C24_Witness ==
    /\ probe # ProbeIdle
    /\ probe[1].port.events = <<"timeout", "error", "connect">>
    /\ probe[1].port.out = "false"

\* a socket that was ended or destroyed by a handler, or destroyed by the
\* runtime when it emitted its error
Released(sock) == sock \in {"ended", "destroyed", "errored"}

C26_SslOutcome ==
    probe # ProbeIdle =>
        LET t == probe[1].tls
        IN /\ t.events = <<>> => t.out = PendingSsl
           /\ (t.events # <<>> /\ t.events[1] # "secureConnect") =>
                 t.out = << <<>> >>
           /\ (t.events # <<>> /\ t.events[1] = "secureConnect") =>
                 t.out = << <<[daysRemaining |-> (t.validTo[1] - Now) \div DayMs,
                               valid |-> (t.validTo[1] - Now) \div DayMs > 0]>> >>

C26_Witness ==
    /\ probe # ProbeIdle
    /\ probe[1].tls.events = <<"secureConnect", "timeout", "error">>
    /\ probe[1].tls.validTo = <<DayMs - 1>>
    /\ probe[1].tls.out = << <<[daysRemaining |-> 0, valid |-> FALSE]>> >>
    /\ probe[1].tls.sock = "destroyed"

\* the phase a line of the report belongs to: ports 1, TLS 2, SPF 3,
\* DMARC 4, and in the web audit HSTS or the failure line 5, no-sniff 6,
\* clickjacking 7
PhaseOf(line) ==
    CASE IsPortLine(line) \/ line = FirewalledLine -> 1
      [] Mentions(line, "SSL") -> 2
      [] Mentions(line, "SPF") -> 3
      [] Mentions(line, "DMARC") -> 4
      [] Mentions(line, "HSTS") \/ line = ScanFailedLine -> 5
      [] Mentions(line, "X-Content-Type-Options")
           \/ Mentions(line, "Sniffing") -> 6
      [] Mentions(line, "Clickjacking") -> 7

\* the last phase that is over when the scan is at pc
PhasesOver ==
    CASE pc \in {"start", "ports"} -> 0
      [] pc = "ssl" -> 1
      [] pc = "spf" -> 2
      [] pc = "dmarc" -> 3
      [] pc \in {"fetch", "body"} -> 4
      [] pc = "done" -> 7

InPhaseOrder(lines) ==
    \A j, k \in 1..Len(lines) : j < k => PhaseOf(lines[j]) <= PhaseOf(lines[k])

\* C27: in issues and in passes the lines stand in the order of the phases,
\* ports, TLS, SPF, DMARC, then HSTS, no-sniff, clickjacking; at every await
\* the lists hold lines of the phases that are over and of no later one,
\* every earlier phase having written its lines; the report returns the
\* lists as they are.
C27_PhaseOrder ==
    /\ InPhaseOrder(issues)
    /\ InPhaseOrder(passes)
    /\ \A l \in Lines(issues) \cup Lines(passes) : PhaseOf(l) <= PhasesOver
    /\ \A ph \in 1..4 :
          ph <= PhasesOver =>
              \E l \in Lines(issues) \cup Lines(passes) : PhaseOf(l) = ph
    /\ Returned => /\ report[1].issues = issues
                   /\ report[1].passes = passes
                   /\ \E l \in Lines(issues) \cup Lines(passes) : PhaseOf(l) = 5

C27_Witness ==
    /\ Returned
    /\ bodyStream = "ended"
    /\ Len(report[1].issues) = 5
    /\ Len(report[1].passes) = 3
    /\ PhaseOf(report[1].issues[1]) = 1
    /\ PhaseOf(report[1].issues[2]) = 1
    /\ PhaseOf(report[1].issues[3]) = 3
    /\ PhaseOf(report[1].issues[4]) = 5
    /\ PhaseOf(report[1].issues[5]) = 7
    /\ PhaseOf(report[1].passes[1]) = 2
    /\ PhaseOf(report[1].passes[2]) = 4
    /\ PhaseOf(report[1].passes[3]) = 6

\* the lines of phase ph in a list
RECURSIVE CountPhase(_, _)
CountPhase(lines, ph) ==
    IF lines = <<>> THEN 0
    ELSE (IF PhaseOf(Head(lines)) = ph THEN 1 ELSE 0)
         + CountPhase(Tail(lines), ph)

\* C28: in every report the TLS, the SPF and the DMARC check each have one
\* line, in issues or in passes; the port phase has one issue per open port,
\* or one pass when none is open; the web audit has one line for each of
\* its three checks, or the one failure issue; and a score below 100 comes
\* with an issue.
C28_OneLinePerCheck ==
    Returned =>
        LET i == report[1].issues
            p == report[1].passes
            open == Cardinality({k \in PortIx : portOut[k] = "true"})
        IN /\ \A ph \in {2, 3, 4} : CountPhase(i, ph) + CountPhase(p, ph) = 1
           /\ CountPhase(i, 1) = open
           /\ CountPhase(p, 1) = IF open = 0 THEN 1 ELSE 0
           /\ IF bodyStream = "ended"
              THEN /\ \A ph \in {5, 6, 7} :
                         CountPhase(i, ph) + CountPhase(p, ph) = 1
                   /\ ScanFailedLine \notin Lines(i)
              ELSE /\ CountPhase(i, 5) = 1
                   /\ ScanFailedLine \in Lines(i)
                   /\ \A ph \in {6, 7} : CountPhase(i, ph) + CountPhase(p, ph) = 0
                   /\ CountPhase(p, 5) = 0
           /\ report[1].score < 100 => i # <<>>

C28_Witness ==
    /\ Returned
    /\ bodyStream = "ended"
    /\ Len(report[1].issues) = 4
    /\ Len(report[1].passes) = 3
    /\ report[1].score = 45
    /\ <<"SPF", "Record", "unsafe", "('+all')">> \in Lines(report[1].issues)
    /\ NoPortOpen

\* C29: once the call of scanDomain that handleScan awaits has settled, by
\* resolving or by rejecting, loading is false again; and the results are
\* never shown while loading is true.
C29_LoadingReset ==
    page # PageIdle =>
        /\ page[1].call = <<>> => ~page[1].loading
        /\ ~(page[1].loading /\ page[1].showResults)

\* C30: the domain in the DMARC fix record and the industry named next to
\* the loss are the domain and the industry of the last completed scan.
C30_ResultsOfSubmitted ==
    page # PageIdle =>
        LET p == page[1]
        IN /\ p.showResults =>
                 /\ p.scanned # <<>>
                 /\ p.industry = p.scanned[1].industry
           /\ (p.showResults /\ p.selectedFix # <<>>) =>
                 \/ p.selectedFix[1].domain = <<>>
                 \/ p.selectedFix[1].domain = <<p.scanned[1].domain>>

====
